---- MODULE Spec2Model ----
(***************************************************************************)
(* Verification model of the RAG engine of pmreverte/GlobalProject.        *)
(*                                                                         *)
(*   SpecOrch  - one request through the endpoint consulta_combinada and   *)
(*               the pipeline responder_a_pregunta_combinada               *)
(*               (backend/core/query_router.py), one action per capability *)
(*               call of the pipeline.                                     *)
(*   SpecIndex - the document vector index (backend/documents/             *)
(*               doc_indexer.py) under upload, delete and search.          *)
(*                                                                         *)
(*   SpecChunk - one call of chunk_text (backend/sql/sql_embeddings.py) on  *)
(*               every text and budget of the model.                       *)
(*   SpecSync  - one run of generate_database_embeddings                   *)
(*               (backend/sql/sql_embeddings.py), one action per loop turn.*)
(*   SpecStore - the load-modify-save cycle on a snapshot directory, file  *)
(*               by file, with two writers and one reader.                 *)
(*   SpecRemove - the handler eliminar_documento (backend/api/            *)
(*               query_routes.py) step by step, after uploads.            *)
(*   SpecUpload - the handler cargar_documento with saves that fail and   *)
(*               the lists it reports.                                    *)
(*   SpecToken - one call of create_access_token (backend/auth/           *)
(*               auth_system.py).                                         *)
(*   SpecResync, SpecSyncLive - repeated runs of                          *)
(*               generate_database_embeddings, and one run under weak     *)
(*               fairness of its steps.                                   *)
(*                                                                         *)
(* Texts are sequences of string tokens: the empty text is << >> and       *)
(* str.startswith(marker) is a test on the first token.                    *)
(***************************************************************************)
EXTENDS Integers, Sequences, FiniteSets, TLC

VARIABLES
    \* ---- responder_a_pregunta_combinada / consulta_combinada ----
    pc,                  \* position of the request in the pipeline
    registros_similares, \* query_router.py:55
    sql,                 \* query_router.py:61,66,73
    resultado_sql,       \* query_router.py:62,67,72
    contexto_sql,        \* query_router.py:58,68,71
    contexto_docs,       \* query_router.py:77,80
    respuesta,           \* query_router.py:87,90
    error_details,       \* query_router.py:52,70,79,89
    calls,               \* capabilities invoked so far by the current call
    outs,                \* what each capability did in the current call
    outcome,             \* how responder_a_pregunta_combinada ended
    raised,              \* payload of the exception it raised
    resultado,           \* the dict it returned
    http,                \* response of the endpoint consulta_combinada
    \* ---- document vector index (doc_indexer.py) ----
    uploads,             \* names of the files in ./uploads
    vs_exists,           \* os.path.exists(VECTORSTORE_PATH)
    vs_docs,             \* docstore of the snapshot saved at VECTORSTORE_PATH
    records,             \* table document_records, in id order
    last,                \* what the last document operation did and returned
    \* ---- chunk_text (sql_embeddings.py) ----
    ct_text,             \* argument text, as its token sequence
    ct_max_tokens,       \* argument max_tokens
    ct_chunks,           \* the list chunk_text returned
    ct_pc,               \* "idle", "ready" (arguments chosen) or "done" (returned)
    \* ---- generate_database_embeddings (sql_embeddings.py) ----
    sy_pc,               \* position of the run
    sy_tables,           \* the tables of the database, each the sequence of its rows
    sy_t,                \* index of the table the current loop is at
    sy_offset,           \* offset (line 206)
    sy_batch,            \* batch_records (line 215)
    sy_i,                \* i of the sub-batch loop (line 242)
    sy_total,            \* total_records
    sy_processed,        \* processed_records
    sy_all,              \* all_documents
    sy_result,           \* the dict the run returned
    sy_log,              \* what the run did, step by step
    sq_exists,           \* os.path.exists("./vectorstore/sql")
    sq_docs,             \* docstore of the snapshot saved there
    \* ---- a snapshot directory under concurrent writers and a reader ----
    st_dir,              \* the snapshot directory exists
    st_faiss,            \* its file index.faiss
    st_pkl,              \* its file index.pkl
    st_w,                \* each writer: position in its cycle, loaded store, outcome
    st_r,                \* the reader: position, and what its last search loaded
    st_hist,             \* whether a failure happened, the writers and cycles started
    \* ---- DELETE /documentos/eliminar/{path} (query_routes.py) ----
    rm_pc,               \* position of the handler eliminar_documento
    rm_path,             \* its argument path
    rm_dir_path,         \* dir_path of the clean-up loop (lines 486-490)
    rm_out,              \* the files of the machine outside ./uploads
    rm_dirs,             \* the directories of the machine outside ./uploads
    rm_http,             \* the response of the handler
    \* ---- POST /documentos/cargar, saves that fail included (query_routes.py) ----
    up_vacios,           \* names in ./uploads whose file was left empty by a failed save
    up_http,             \* the response of the handler cargar_documento
    up_calls,            \* calls of the handler so far
    \* ---- create_access_token (auth_system.py) ----
    tk_data,             \* argument data, a dict
    tk_expires_delta,     \* argument expires_delta: None or a duration in ticks
    tk_now,              \* datetime.now(timezone.utc), in ticks since the epoch
    tk_pc,               \* "idle", "ready" (arguments chosen) or "done"
    tk_out               \* what the call returned or raised

orchVars == <<pc, registros_similares, sql, resultado_sql, contexto_sql,
              contexto_docs, respuesta, error_details, calls, outs, outcome,
              raised, resultado, http>>

docVars == <<uploads, vs_exists, vs_docs, records, last>>

chunkVars == <<ct_text, ct_max_tokens, ct_chunks, ct_pc>>

syncVars == <<sy_pc, sy_tables, sy_t, sy_offset, sy_batch, sy_i, sy_total,
              sy_processed, sy_all, sy_result, sy_log, sq_exists, sq_docs>>

storeVars == <<st_dir, st_faiss, st_pkl, st_w, st_r, st_hist>>

removeVars == <<rm_pc, rm_path, rm_dir_path, rm_out, rm_dirs, rm_http>>

uploadVars == <<up_vacios, up_http, up_calls>>

tokenVars == <<tk_data, tk_expires_delta, tk_now, tk_pc, tk_out>>

vars == <<orchVars, docVars, chunkVars, syncVars, storeVars, removeVars, uploadVars,
          tokenVars>>

\* what the actions of one subsystem leave alone
exceptOrch == <<docVars, chunkVars, syncVars, storeVars, removeVars, uploadVars,
                tokenVars>>
exceptDocs == <<orchVars, chunkVars, syncVars, storeVars, removeVars, uploadVars,
                tokenVars>>
exceptChunk == <<orchVars, docVars, syncVars, storeVars, removeVars, uploadVars,
                tokenVars>>
exceptSync == <<orchVars, docVars, chunkVars, storeVars, removeVars, uploadVars,
                tokenVars>>
exceptStore == <<orchVars, docVars, chunkVars, syncVars, removeVars, uploadVars,
                tokenVars>>
exceptRemove == <<orchVars, chunkVars, syncVars, storeVars, uploadVars, tokenVars>>
exceptUpload == <<orchVars, chunkVars, syncVars, storeVars, removeVars, tokenVars>>
exceptToken == <<orchVars, docVars, chunkVars, syncVars, storeVars, removeVars,
                 uploadVars>>

----------------------------------------------------------------------------
(* Bounds *)

\* largest number of hits the relational similarity search returns in the model
MaxHits == 2
\* largest number of rows a generated query returns in the model
MaxFilas == 2
\* largest number of chunks the document index holds in the model
MaxChunks == 3
\* largest number of rows of document_records in the model
MaxRecords == 3
\* largest number of files in one upload request in the model
MaxArchivos == 2
\* config.max_files_per_upload of the model's DocumentConfig
MaxFilesPerUpload == 2

----------------------------------------------------------------------------
(* Python values *)

None == [tag |-> "None"]
Dict(items) == [tag |-> "dict", items |-> items]
NoneStr == "<None>"

\* dict as a set of <<key, value>> pairs with unique keys
Keys(d) == {p[1] : p \in d}
DictSet(d, k, v) == {p \in d : p[1] # k} \cup {<<k, v>>}

----------------------------------------------------------------------------
(* Texts used by the pipeline *)

ERROR_SQL == "[ERROR SQL]"
ERROR_DOCS == "[ERROR DOCS]"
ERROR_LLM == "Error al generar respuesta"
SQL_EMBEDDINGS == "Consulta respondida usando embeddings"
NO_RESULTADOS == "No se encontraron resultados."
NO_DOCS == "No hay documentos indexados."

\* str.startswith(prefix) on a token text
StartsWith(text, prefix) == Len(text) > 0 /\ text[1] = prefix

\* the texts the answer LLM can produce: empty, an ordinary answer, and an
\* answer that itself opens with the words of the error marker
LlmTexts == { << >>, <<"La respuesta es 42">>, <<ERROR_LLM, " de ventas: revise el informe">> }

\* the contexts document retrieval can return
DocTexts == { <<NO_DOCS>>, <<"chunk 1", "chunk 2">> }

\* the record contents the relational similarity search can return
Hits == { h \in UNION {[1..n -> {"Table: T"}] : n \in 0..MaxHits} : TRUE }

\* the row sets a query can return
Filas == UNION {[1..n -> {"col: v"}] : n \in 0..MaxFilas}

\* resultado dicts of ejecutar_query: the keys present, the rows, the error
QueryOk(filas) == [keys |-> {"columnas", "filas"}, filas |-> filas, error |-> NoneStr]
QueryError(msg) == [keys |-> {"error"}, filas |-> << >>, error |-> msg]
EmptyDict == [keys |-> {}, filas |-> << >>, error |-> NoneStr]
EmbeddingsDict == [keys |-> {"embeddings"}, filas |-> << >>, error |-> NoneStr]

\* rag_sql_utils.convertir_resultado_a_texto with incluir_similares=False
convertir_resultado_a_texto(r) ==
    IF r.keys = {} \/ "filas" \notin r.keys \/ r.filas = << >>
    THEN <<NO_RESULTADOS>>
    ELSE <<"Resumen de resultados obtenidos de la base de datos:">> \o r.filas

----------------------------------------------------------------------------
(* Paths and files of the document store *)

\* A path is a sequence of tokens; "/" is the separator token.
SEP == "/"

\* urllib.parse.unquote, token by token: percent escapes are decoded
UnquoteToken(t) ==
    CASE t = "%2F" -> SEP
      [] t = "%61.pdf" -> "a.pdf"
      [] OTHER -> t
unquote(path) == [i \in 1..Len(path) |-> UnquoteToken(path[i])]

\* os.path.basename: what follows the last separator
RECURSIVE basename(_)
basename(path) ==
    IF path = << >> \/ path[Len(path)] = SEP
    THEN << >>
    ELSE basename(SubSeq(path, 1, Len(path) - 1)) \o <<path[Len(path)]>>

\* os.path.join(root, archivo) for the upload directory
UPLOADS == <<"uploads">>
join(root, archivo) == root \o <<SEP>> \o archivo

\* os.path.splitext(path)[1].lower()
ExtOfToken(t) ==
    CASE t \in {"a.pdf", "b.pdf", "%61.pdf", "d.pdf", "k.pdf"} -> ".pdf"
      [] t = "c.txt" -> ".txt"
      [] t = "e.exe" -> ".exe"
      [] OTHER -> ""
splitext_lower(path) == IF path = << >> THEN "" ELSE ExtOfToken(path[Len(path)])

\* the files a client can upload, by name
FileNames == { <<"a.pdf">>, <<"b.pdf">>, <<"%61.pdf">>, <<"c.txt">>, <<"d.pdf">>, <<"e.exe">> }

\* os.path.getsize(filepath) in MB
FileSizeMb(filepath) == IF basename(filepath) = <<"d.pdf">> THEN 11 ELSE 1

\* number of chunks RecursiveCharacterTextSplitter(800, 100) cuts the file's text into
NumChunks(name) == IF name = <<"a.pdf">> THEN 2 ELSE 1

\* DocumentConfig defaults (auth/models.py)
MAX_FILE_SIZE == 10
ALLOWED_EXTENSIONS == {".pdf", ".doc", ".docx", ".txt"}

\* doc_indexer.is_valid_file
is_valid_file(filepath) ==
    /\ splitext_lower(filepath) \in ALLOWED_EXTENSIONS
    /\ FileSizeMb(filepath) <= MAX_FILE_SIZE

\* doc_indexer.procesar_archivo followed by the splitter: the chunks of the
\* file, each tagged metadata["source"] = os.path.basename(ruta)
procesar_archivo(ruta) ==
    IF splitext_lower(ruta) \in {".pdf", ".doc", ".docx"}
    THEN [i \in 1..NumChunks(basename(ruta)) |->
             [source |-> basename(ruta), page_content |-> i]]
    ELSE << >>

\* doc_indexer.create_document_record: a new row, not indexed, not deleted
create_document_record(ruta) ==
    [filename |-> basename(ruta), is_indexed |-> FALSE, is_deleted |-> FALSE]

\* doc_indexer.update_document_record: both flags are set to the arguments,
\* whose defaults are False
update_document_record(record, is_indexed, is_deleted) ==
    [record EXCEPT !.is_indexed = is_indexed, !.is_deleted = is_deleted]

Min(a, b) == IF a < b THEN a ELSE b

\* the walk of procesar_directorio over a directory of n files:
\* archivos_encontrados when the walk ends (it returns at file number
\* max_files_per_upload + 1)
ArchivosEncontradosSinContar(n) == 0
archivos_encontrados(n) == Min(n, MaxFilesPerUpload + 1)

\* the files the walk can visit before it ends, in the orders os.walk can
\* list them
Recorridos(dir) ==
    LET n == Min(Cardinality(dir), MaxFilesPerUpload)
    IN {o \in [1..n -> dir] : \A i, j \in 1..n : i # j => o[i] # o[j]}

\* what the loop body of procesar_directorio does with one file (lines
\* 265-275): the row it creates, marked is_indexed as soon as procesar_archivo
\* returned documents; the chunks it collects; the name it reports
RecordDelArchivo ==
    [f \in FileNames |->
        LET ruta == join(UPLOADS, f)
        IN IF ~is_valid_file(ruta) THEN << >>
           ELSE IF procesar_archivo(ruta) # << >>
                THEN <<update_document_record(create_document_record(ruta), TRUE, FALSE)>>
                ELSE <<create_document_record(ruta)>>]
ChunksDelArchivo ==
    [f \in FileNames |->
        LET ruta == join(UPLOADS, f)
        IN IF is_valid_file(ruta) THEN procesar_archivo(ruta) ELSE << >>]
ProcesadoDelArchivo ==
    [f \in FileNames |->
        IF ChunksDelArchivo[f] # << >> THEN <<f>> ELSE << >>]

\* the rows created, the chunks collected and archivos_procesados after the
\* walk visited `visitados`
RECURSIVE RecordsDelRecorrido(_)
RecordsDelRecorrido(visitados) ==
    IF visitados = << >> THEN << >>
    ELSE RecordDelArchivo[Head(visitados)] \o RecordsDelRecorrido(Tail(visitados))

RECURSIVE ChunksDelRecorrido(_)
ChunksDelRecorrido(visitados) ==
    IF visitados = << >> THEN << >>
    ELSE ChunksDelArchivo[Head(visitados)] \o ChunksDelRecorrido(Tail(visitados))

RECURSIVE ProcesadosDelRecorrido(_)
ProcesadosDelRecorrido(visitados) ==
    IF visitados = << >> THEN << >>
    ELSE ProcesadoDelArchivo[Head(visitados)] \o ProcesadosDelRecorrido(Tail(visitados))

\* the upload requests of the model: 1..MaxArchivos files
Requests == {r \in SUBSET FileNames : Cardinality(r) \in 1..MaxArchivos}

\* similarity_search(pregunta, k=5)
K_DOCS == 5

NoLast == [op |-> "none", status |-> "none", nombre |-> << >>, procesados |-> << >>,
           eliminados |-> 0, hallados |-> {}]

\* the snapshot after cargar_y_indexar_documentos indexed `chunks`
\* (lines 291-298): merged into the loaded store, or a new store
SnapshotTrasIndexar(exists, docs, chunks) ==
    IF exists
    THEN [exists |-> TRUE, docs |-> docs \o chunks]
    ELSE [exists |-> TRUE, docs |-> chunks]

\* POST /documentos/cargar: cargar_documento saves every file of the request
\* to ./uploads, removes the invalid ones again, and, when one was valid,
\* calls cargar_y_indexar_documentos on the whole directory
CargarDocumento ==
    /\ \E archivos \in Requests :
       \E dir \in {(uploads \cup archivos)
                       \ {f \in archivos : ~is_valid_file(join(UPLOADS, f))}} :
        /\ uploads' = dir
        /\ IF \A f \in archivos : ~is_valid_file(join(UPLOADS, f))
           THEN /\ last' = [NoLast EXCEPT !.op = "cargar", !.status = "sin_validos"]
                /\ UNCHANGED <<vs_exists, vs_docs, records>>
           ELSE \E visitados \in Recorridos(dir) :
                \E nuevos \in {RecordsDelRecorrido(visitados)},
                   chunks \in {ChunksDelRecorrido(visitados)} :
                /\ Len(records) + Len(nuevos) <= MaxRecords
                /\ records' = records \o nuevos
                /\ IF archivos_encontrados(Cardinality(dir)) > MaxFilesPerUpload
                   THEN /\ last' = [NoLast EXCEPT !.op = "cargar", !.status = "limite_excedido"]
                        /\ UNCHANGED <<vs_exists, vs_docs>>
                   ELSE IF chunks = << >>
                   THEN /\ last' = [NoLast EXCEPT !.op = "cargar", !.status = "sin_documentos"]
                        /\ UNCHANGED <<vs_exists, vs_docs>>
                   ELSE /\ Len(vs_docs) + Len(chunks) <= MaxChunks
                        /\ \/ \* the embedding provider failed: the exception leaves
                              \* before save_local, the endpoint answers HTTP 500
                              /\ last' = [NoLast EXCEPT !.op = "cargar", !.status = "error"]
                              /\ UNCHANGED <<vs_exists, vs_docs>>
                           \/ /\ vs_exists' = SnapshotTrasIndexar(vs_exists, vs_docs, chunks).exists
                              /\ vs_docs' = SnapshotTrasIndexar(vs_exists, vs_docs, chunks).docs
                              /\ last' = [NoLast EXCEPT !.op = "cargar", !.status = "indexados",
                                             !.procesados = ProcesadosDelRecorrido(visitados)]
    /\ UNCHANGED exceptDocs

\* the paths eliminar_documento_indexado is called with
Nombres == FileNames \cup { <<"dir", SEP, "a.pdf">>, <<"dir", "%2F", "b.pdf">> }

\* index of the first row of document_records with that filename, 0 if none
FirstRecord(recs, filename) ==
    IF \E i \in 1..Len(recs) : recs[i].filename = filename
    THEN CHOOSE i \in 1..Len(recs) :
            /\ recs[i].filename = filename
            /\ \A j \in 1..(i - 1) : recs[j].filename # filename
    ELSE 0

\* the chunks eliminar_documento_indexado keeps (lines 375-381)
DocumentosActualizadosPorNombreCrudo(docs, nombre) ==
    SelectSeq(docs, LAMBDA doc : doc.source # basename(nombre))
documentos_actualizados(docs, nombre) ==
    SelectSeq(docs, LAMBDA doc : doc.source # basename(unquote(nombre)))

\* the snapshot after the filter (lines 383-390): removed when nothing
\* survives, rebuilt from the survivors otherwise
SnapshotTrasEliminarSinBorrar(sobrevivientes) ==
    [exists |-> TRUE, docs |-> sobrevivientes]
SnapshotTrasEliminar(sobrevivientes) ==
    IF sobrevivientes = << >>
    THEN [exists |-> FALSE, docs |-> << >>]
    ELSE [exists |-> TRUE, docs |-> sobrevivientes]

\* doc_indexer.eliminar_documento_indexado(nombre, user_id, db)
EliminarDocumentoIndexado ==
    /\ \E nombre \in Nombres :
        IF ~vs_exists
        THEN /\ last' = [NoLast EXCEPT !.op = "eliminar", !.status = "sin_vectorstore",
                            !.nombre = nombre]
             /\ UNCHANGED <<uploads, vs_exists, vs_docs, records>>
        ELSE \E i \in {FirstRecord(records, basename(nombre))},
                sobrevivientes \in {documentos_actualizados(vs_docs, nombre)} :
             LET nuevo == SnapshotTrasEliminar(sobrevivientes) IN
             /\ records' = IF i = 0 THEN records
                           ELSE [records EXCEPT ![i] =
                                    update_document_record(records[i], FALSE, TRUE)]
             /\ \/ \* FAISS.from_documents failed: the exception is re-raised
                   \* before save_local
                   /\ sobrevivientes # << >>
                   /\ last' = [NoLast EXCEPT !.op = "eliminar", !.status = "error",
                                  !.nombre = nombre]
                   /\ UNCHANGED <<vs_exists, vs_docs>>
                \/ /\ vs_exists' = nuevo.exists
                   /\ vs_docs' = nuevo.docs
                   /\ last' = [NoLast EXCEPT !.op = "eliminar", !.status = "eliminado",
                                  !.nombre = nombre,
                                  !.eliminados = Len(vs_docs) - Len(sobrevivientes)]
             /\ UNCHANGED uploads
    /\ UNCHANGED exceptDocs

\* the sets of chunks similarity_search(pregunta, k) can return from a store
SimilaritySearch(docs, k) ==
    {{docs[i] : i \in I} : I \in {J \in SUBSET (1..Len(docs)) :
                                     Cardinality(J) = Min(k, Len(docs))}}

\* doc_indexer.recuperar_contexto_desde_documentos(pregunta, k=5)
RecuperarContextoDesdeDocumentos ==
    /\ IF ~vs_exists
       THEN last' = [NoLast EXCEPT !.op = "buscar", !.status = "sin_vectorstore"]
       ELSE \/ \E hallados \in SimilaritySearch(vs_docs, K_DOCS) :
                 last' = [NoLast EXCEPT !.op = "buscar", !.status = "ok",
                             !.hallados = hallados]
            \/ \* the embedding of the question failed
               last' = [NoLast EXCEPT !.op = "buscar", !.status = "error"]
    /\ UNCHANGED <<uploads, vs_exists, vs_docs, records>>
    /\ UNCHANGED exceptDocs

NextIndex ==
    \/ CargarDocumento
    \/ EliminarDocumentoIndexado
    \/ RecuperarContextoDesdeDocumentos

----------------------------------------------------------------------------
(* responder_a_pregunta_combinada, one action per capability call *)

Capabilities == {"get_similar_records", "generar_sql_desde_pregunta", "ejecutar_query",
                 "recuperar_contexto_desde_documentos", "generar_respuesta_con_contexto"}

NoOuts == [c \in Capabilities |-> "none"]

NoResultado == [pregunta |-> NoneStr, sql_generado |-> NoneStr, respuesta |-> << >>,
                fuente_sql |-> EmptyDict, error_details |-> None]

NoHttp == [status |-> 0, respuesta |-> << >>, warnings |-> None, has_warnings |-> FALSE]

\* no request has started (the locals are unset), ./uploads is empty, no
\* snapshot is saved and document_records has no rows
InitOrchDocs ==
    /\ uploads = {}
    /\ vs_exists = FALSE
    /\ vs_docs = << >>
    /\ records = << >>
    /\ last = NoLast
    /\ pc = "idle"
    /\ registros_similares = << >>
    /\ sql = NoneStr
    /\ resultado_sql = EmptyDict
    /\ contexto_sql = << >>
    /\ contexto_docs = << >>
    /\ respuesta = << >>
    /\ error_details = {}
    /\ calls = {}
    /\ outs = NoOuts
    /\ outcome = "none"
    /\ raised = None
    /\ resultado = NoResultado
    /\ http = NoHttp

\* the endpoint is invoked and calls responder_a_pregunta_combinada, which
\* starts with error_details = {}
ConsultaCombinada ==
    /\ pc \in {"idle", "done"}
    /\ pc' = "embed"
    /\ registros_similares' = << >>
    /\ sql' = NoneStr
    /\ resultado_sql' = EmptyDict
    /\ contexto_sql' = << >>
    /\ contexto_docs' = << >>
    /\ respuesta' = << >>
    /\ error_details' = {}
    /\ calls' = {}
    /\ outs' = NoOuts
    /\ outcome' = "none"
    /\ raised' = None
    /\ resultado' = NoResultado
    /\ http' = NoHttp
    /\ UNCHANGED exceptOrch

\* `if registros_similares:` - the embedding short-circuit is taken
UsaEmbeddingsSiempreSql(registros) == FALSE
UsaEmbeddings(registros) == registros # << >>

\* contexto_sql built from the hits, one bullet line per hit
ContextoEmbeddings(registros) ==
    <<"Informacion encontrada en la base de datos:">> \o registros

\* 1. get_similar_records(pregunta, k=10); the call is outside any try block,
\* so an exception of the search leaves responder_a_pregunta_combinada
GetSimilarRecords ==
    /\ pc = "embed"
    /\ calls' = calls \cup {"get_similar_records"}
    /\ \/ \E hits \in Hits :
            /\ registros_similares' = hits
            /\ outs' = [outs EXCEPT !["get_similar_records"] =
                            IF hits = << >> THEN "empty" ELSE "hit"]
            /\ IF UsaEmbeddings(hits)
               THEN /\ contexto_sql' = ContextoEmbeddings(hits)
                    /\ sql' = SQL_EMBEDDINGS
                    /\ resultado_sql' = EmbeddingsDict
                    /\ pc' = "docs"
               ELSE /\ pc' = "sqlgen"
                    /\ UNCHANGED <<contexto_sql, sql, resultado_sql>>
            /\ UNCHANGED <<outcome, raised>>
       \/ /\ outs' = [outs EXCEPT !["get_similar_records"] = "raise"]
          /\ outcome' = "uncaught"
          /\ raised' = Dict({<<"exception", "fallo de get_similar_records">>})
          /\ pc' = "respond"
          /\ UNCHANGED <<registros_similares, contexto_sql, sql, resultado_sql>>
    /\ UNCHANGED <<contexto_docs, respuesta, error_details, resultado, http>>
    /\ UNCHANGED exceptOrch

\* the except branch of the SQL stage (lines 69-73)
SqlExcept(msg) ==
    /\ error_details' = DictSet(error_details, "sql_error", msg)
    /\ contexto_sql' = <<ERROR_SQL, msg>>
    /\ resultado_sql' = EmptyDict
    /\ sql' = NoneStr

\* 2a. sql = generar_sql_desde_pregunta(pregunta, llm_id)
GenerarSql ==
    /\ pc = "sqlgen"
    /\ calls' = calls \cup {"generar_sql_desde_pregunta"}
    /\ \/ /\ outs' = [outs EXCEPT !["generar_sql_desde_pregunta"] = "ok"]
          /\ sql' = "SELECT 1"
          /\ pc' = "sqlexec"
          /\ UNCHANGED <<error_details, contexto_sql, resultado_sql>>
       \/ /\ outs' = [outs EXCEPT !["generar_sql_desde_pregunta"] = "raise"]
          /\ SqlExcept("fallo del LLM de SQL")
          /\ pc' = "docs"
    /\ UNCHANGED <<registros_similares, contexto_docs, respuesta, outcome, raised,
                   resultado, http>>
    /\ UNCHANGED exceptOrch

\* sql_connector.ejecutar_query: SQLAlchemyError and ValueError are caught
\* and returned as {"error": str(e)}; the query's rows otherwise
ejecutar_query(dbError, filas) ==
    IF dbError THEN QueryError("SQLAlchemyError") ELSE QueryOk(filas)

\* 2b. resultado_sql = ejecutar_query(sql);
\*     contexto_sql = convertir_resultado_a_texto(resultado_sql, False)
EjecutarQuery ==
    /\ pc = "sqlexec"
    /\ calls' = calls \cup {"ejecutar_query"}
    /\ \/ \E filas \in Filas :
            /\ outs' = [outs EXCEPT !["ejecutar_query"] =
                            IF filas = << >> THEN "empty" ELSE "rows"]
            /\ resultado_sql' = ejecutar_query(FALSE, filas)
            /\ contexto_sql' = convertir_resultado_a_texto(resultado_sql')
            /\ UNCHANGED <<error_details, sql>>
       \/ /\ outs' = [outs EXCEPT !["ejecutar_query"] = "dberror"]
          /\ resultado_sql' = ejecutar_query(TRUE, << >>)
          /\ contexto_sql' = convertir_resultado_a_texto(resultado_sql')
          /\ UNCHANGED <<error_details, sql>>
       \/ \* an exception that is neither SQLAlchemyError nor ValueError
          /\ outs' = [outs EXCEPT !["ejecutar_query"] = "raise"]
          /\ SqlExcept("fallo inesperado de ejecutar_query")
    /\ pc' = "docs"
    /\ UNCHANGED <<registros_similares, contexto_docs, respuesta, outcome, raised,
                   resultado, http>>
    /\ UNCHANGED exceptOrch

\* 3. contexto_docs = recuperar_contexto_desde_documentos(pregunta)
RecuperarContextoDocs ==
    /\ pc = "docs"
    /\ calls' = calls \cup {"recuperar_contexto_desde_documentos"}
    /\ \/ \E texto \in DocTexts :
            /\ outs' = [outs EXCEPT !["recuperar_contexto_desde_documentos"] = "ok"]
            /\ contexto_docs' = texto
            /\ UNCHANGED error_details
       \/ /\ outs' = [outs EXCEPT !["recuperar_contexto_desde_documentos"] = "raise"]
          /\ error_details' = DictSet(error_details, "docs_error", "fallo del indice")
          /\ contexto_docs' = <<ERROR_DOCS, "fallo del indice">>
    /\ pc' = "llm"
    /\ UNCHANGED <<registros_similares, sql, resultado_sql, contexto_sql, respuesta,
                   outcome, raised, resultado, http>>
    /\ UNCHANGED exceptOrch

\* 5. respuesta = generar_respuesta_con_contexto(pregunta, contexto_completo, llm_id)
GenerarRespuesta ==
    /\ pc = "llm"
    /\ calls' = calls \cup {"generar_respuesta_con_contexto"}
    /\ \/ \E texto \in LlmTexts :
            /\ outs' = [outs EXCEPT !["generar_respuesta_con_contexto"] = "ok"]
            /\ respuesta' = texto
            /\ UNCHANGED error_details
       \/ /\ outs' = [outs EXCEPT !["generar_respuesta_con_contexto"] = "raise"]
          /\ error_details' = DictSet(error_details, "llm_error", "fallo del LLM")
          /\ respuesta' = <<ERROR_LLM, ": fallo del LLM">>
    /\ pc' = "decide"
    /\ UNCHANGED <<registros_similares, sql, resultado_sql, contexto_sql, contexto_docs,
                   outcome, raised, resultado, http>>
    /\ UNCHANGED exceptOrch

\* `if error_details and not respuesta or respuesta.startswith("Error al generar
\* respuesta")`: Python binds `and` tighter than `or`
DebeFallarConCualquierError(ed, resp) == ed # {}
DebeFallar(ed, resp) ==
    (ed # {} /\ resp = << >>) \/ StartsWith(resp, ERROR_LLM)

\* `"error_details": error_details if error_details else None`
ErrorDetailsSiempreNone(ed) == None
ErrorDetailsONone(ed) == IF ed # {} THEN Dict(ed) ELSE None

\* 6. the outcome decision and the returned dict (lines 92-104)
Decidir ==
    /\ pc = "decide"
    /\ IF DebeFallar(error_details, respuesta)
       THEN /\ outcome' = "raised"
            /\ raised' = Dict(error_details)
            /\ UNCHANGED resultado
       ELSE /\ outcome' = "returned"
            /\ resultado' = [pregunta |-> "pregunta", sql_generado |-> sql,
                             respuesta |-> respuesta, fuente_sql |-> resultado_sql,
                             error_details |-> ErrorDetailsONone(error_details)]
            /\ UNCHANGED raised
    /\ pc' = "respond"
    /\ UNCHANGED <<registros_similares, sql, resultado_sql, contexto_sql, contexto_docs,
                   respuesta, error_details, calls, outs, http>>
    /\ UNCHANGED exceptOrch

\* consulta_combinada after the call: HTTP 500 on an exception; otherwise the
\* result, with "warnings" added when resultado.get("error_details") is truthy
Responder ==
    /\ pc = "respond"
    /\ IF outcome = "returned"
       THEN http' = [status |-> 200, respuesta |-> resultado.respuesta,
                     warnings |-> resultado.error_details,
                     has_warnings |-> resultado.error_details # None]
       ELSE http' = [status |-> 500, respuesta |-> << >>, warnings |-> None,
                     has_warnings |-> FALSE]
    /\ pc' = "done"
    /\ UNCHANGED <<registros_similares, sql, resultado_sql, contexto_sql, contexto_docs,
                   respuesta, error_details, calls, outs, outcome, raised, resultado>>
    /\ UNCHANGED exceptOrch

NextOrch ==
    \/ ConsultaCombinada
    \/ GetSimilarRecords
    \/ GenerarSql
    \/ EjecutarQuery
    \/ RecuperarContextoDocs
    \/ GenerarRespuesta
    \/ Decidir
    \/ Responder

----------------------------------------------------------------------------
(* chunk_text (sql_embeddings.py): a text is its sequence of characters *)

\* largest number of characters of a text given to chunk_text in the model
MaxTextLen == 5
\* largest max_tokens given to chunk_text in the model
MaxTokens == 3

NL == "\n"
Chars == {"T", "x", NL}

\* encoding.encode(text): a deterministic tokenizer that merges two equal
\* adjacent "x" or newline characters into one token, as a byte-pair encoding
\* does, so the token count of a text is not its length
RECURSIVE encode(_)
encode(t) ==
    IF t = << >> THEN << >>
    ELSE IF Len(t) >= 2 /\ t[1] = t[2] /\ t[1] \in {"x", NL}
         THEN <<t[1] \o t[2]>> \o encode(SubSeq(t, 3, Len(t)))
         ELSE <<t[1]>> \o encode(Tail(t))

count_tokens(t) == Len(encode(t))

\* str.split('\n'): the lines of a text; the empty text has one empty line
RECURSIVE split_lines(_)
split_lines(t) ==
    IF \A i \in 1..Len(t) : t[i] # NL
    THEN <<t>>
    ELSE LET i == CHOOSE k \in 1..Len(t) : t[k] = NL /\ \A j \in 1..(k - 1) : t[j] # NL
         IN <<SubSeq(t, 1, i - 1)>> \o split_lines(SubSeq(t, i + 1, Len(t)))

\* '\n'.join(lines)
RECURSIVE join_lines(_)
join_lines(lines) ==
    IF lines = << >> THEN << >>
    ELSE IF Len(lines) = 1 THEN lines[1]
    ELSE lines[1] \o <<NL>> \o join_lines(Tail(lines))

\* `if current_chunk: chunks.append(header + '\n' + '\n'.join(current_chunk))`
AppendChunkSinHeader(result, header, current_chunk) ==
    IF current_chunk # << >>
    THEN Append(result, join_lines(current_chunk))
    ELSE result
AppendChunk(result, header, current_chunk) ==
    IF current_chunk # << >>
    THEN Append(result, header \o <<NL>> \o join_lines(current_chunk))
    ELSE result

\* the loop `for line in lines[1:]` (lines 111-122) and the final append
\* (lines 124-127)
RECURSIVE ChunkLoop(_, _, _, _, _, _)
ChunkLoop(rest, result, current_chunk, current_length, header, max_tokens) ==
    IF rest = << >>
    THEN AppendChunk(result, header, current_chunk)
    ELSE LET line == Head(rest)
             line_tokens == count_tokens(line)
         IN IF current_length + line_tokens > max_tokens
            THEN ChunkLoop(Tail(rest), AppendChunk(result, header, current_chunk),
                           <<line>>, count_tokens(header) + line_tokens,
                           header, max_tokens)
            ELSE ChunkLoop(Tail(rest), result, Append(current_chunk, line),
                           current_length + line_tokens, header, max_tokens)

\* sql_embeddings.chunk_text(text, max_tokens)
chunk_text_siempre_divide(t, max_tokens) ==
    LET lines == split_lines(t)
    IN ChunkLoop(Tail(lines), << >>, << >>, 0, lines[1], max_tokens)
chunk_text(t, max_tokens) ==
    IF count_tokens(t) <= max_tokens
    THEN <<t>>
    ELSE LET lines == split_lines(t)
         IN ChunkLoop(Tail(lines), << >>, << >>, 0, lines[1], max_tokens)

\* the texts chunk_text is called with in the model
Texts == UNION {[1..n -> Chars] : n \in 0..MaxTextLen}

InitChunkIdle ==
    /\ ct_text = << >>
    /\ ct_max_tokens = 0
    /\ ct_chunks = << >>
    /\ ct_pc = "idle"

\* the call returns
ChunkText ==
    /\ ct_pc = "ready"
    /\ ct_chunks' = chunk_text(ct_text, ct_max_tokens)
    /\ ct_pc' = "done"
    /\ UNCHANGED <<ct_text, ct_max_tokens>>
    /\ UNCHANGED exceptChunk

NextChunk == ChunkText

----------------------------------------------------------------------------
(* generate_database_embeddings (sql_embeddings.py) *)

\* largest number of tables get_all_tables returns in the model
MaxTables == 2
\* batch_size, the rows of one page, in the model
PageSize == 2
\* chunk_size, the documents of one indexing sub-batch (50 in line 241), in
\* the model
SubBatchSize == 2

\* format_record_text(table, record) of the rows of the model: a row of one
\* short field, a row of two long fields, and a row whose formatting or
\* chunking raises
RowKinds == {"short", "long", "bad"}
RowText ==
    [k \in RowKinds |->
        CASE k = "short" -> <<"T", NL, "x">>
          [] k = "long" -> <<"T", NL, "x", "T", "x", NL, "T", "x", "T">>
          [] OTHER -> << >>]

\* chunk_text(text_content, max_tokens=200000), the budget scaled to the
\* texts of the model
RowChunks == [k \in RowKinds |-> chunk_text(RowText[k], MaxTokens)]

\* the tables a database of the model holds, each the sequence of its rows
TableShapes ==
    { << >>,
      <<"short">>,
      <<"long", "short", "short">>,
      <<"short", "bad", "short">>,
      <<"bad">> }

Databases == UNION {[1..n -> TableShapes] : n \in 0..MaxTables}

\* the Documents built from one row (lines 222-234)
DocsOfRow(t, r, kind) ==
    LET cs == RowChunks[kind]
    IN [i \in 1..Len(cs) |->
           [table |-> t, record_id |-> r,
            chunk |-> IF Len(cs) > 1 THEN i ELSE 0,
            total_chunks |-> Len(cs)]]

\* the loop `for row in result` over the rows of one page (lines 217-235):
\* the documents collected, the rows counted, and whether a row raised
RECURSIVE PageLoop(_, _, _, _)
PageLoop(t, first, rows, acc) ==
    IF rows = << >> THEN acc
    ELSE IF Head(rows) = "bad"
         THEN [acc EXCEPT !.raised = TRUE, !.read = acc.read + 1]
         ELSE PageLoop(t, first + 1, Tail(rows),
                       [acc EXCEPT !.docs = acc.docs \o DocsOfRow(t, first, Head(rows)),
                                   !.processed = acc.processed + 1,
                                   !.read = acc.read + 1])

\* OFFSET offset ROWS FETCH NEXT batch_size ROWS ONLY
Page(table, offset) ==
    SubSeq(table, offset + 1, Min(offset + PageSize, Len(table)))

NoSyncResult == [status |-> "none", total_records |-> 0, processed_records |-> 0]

InitSyncIdle ==
    /\ sy_pc = "idle"
    /\ sy_tables = << >>
    /\ sy_t = 0
    /\ sy_offset = 0
    /\ sy_batch = << >>
    /\ sy_i = 0
    /\ sy_total = 0
    /\ sy_processed = 0
    /\ sy_all = << >>
    /\ sy_result = NoSyncResult
    /\ sy_log = << >>
    /\ sq_exists = FALSE
    /\ sq_docs = << >>

\* create_engine and get_all_tables (lines 183-188); their exception reaches
\* the outer except (lines 281-289) before total_records is a local
SyncStart ==
    /\ sy_pc = "idle"
    /\ \/ /\ sy_result' = [status |-> "error", total_records |-> 0, processed_records |-> 0]
          /\ sy_log' = Append(sy_log, [ev |-> "connect", ok |-> FALSE])
          /\ sy_pc' = "done"
          /\ UNCHANGED <<sy_tables, sy_t>>
       \/ \E db \in Databases :
          /\ sy_tables' = db
          /\ sy_log' = Append(sy_log, [ev |-> "connect", ok |-> TRUE])
          /\ sy_t' = 1
          /\ sy_pc' = IF db = << >> THEN "return" ELSE "count"
          /\ UNCHANGED sy_result
    /\ UNCHANGED <<sy_offset, sy_batch, sy_i, sy_total, sy_processed, sy_all,
                   sq_exists, sq_docs>>
    /\ UNCHANGED exceptSync

\* one turn of the first loop (lines 191-199): SELECT COUNT(*) of one table
CountTable ==
    /\ sy_pc = "count"
    /\ \E ok \in BOOLEAN :
        /\ sy_total' = IF ok THEN sy_total + Len(sy_tables[sy_t]) ELSE sy_total
        /\ sy_log' = Append(sy_log, [ev |-> "count", t |-> sy_t, ok |-> ok])
    /\ IF sy_t < Len(sy_tables)
       THEN sy_t' = sy_t + 1 /\ sy_pc' = "count"
       ELSE sy_t' = 1 /\ sy_pc' = "read"
    /\ UNCHANGED <<sy_tables, sy_offset, sy_batch, sy_i, sy_processed, sy_all,
                   sy_result, sq_exists, sq_docs>>
    /\ UNCHANGED exceptSync

\* the second loop moves to the next table (`break` or `continue`), or ends
NextTableNuncaSale == FALSE
NextTable ==
    /\ sy_offset' = 0
    /\ sy_batch' = << >>
    /\ sy_i' = 0
    /\ IF sy_t < Len(sy_tables)
       THEN sy_t' = sy_t + 1 /\ sy_pc' = "read"
       ELSE sy_t' = sy_t /\ sy_pc' = "return"

\* one turn of `while True` up to the sub-batch loop (lines 207-238): the page
\* query and the loop over its rows
ReadPage ==
    /\ sy_pc = "read"
    /\ \/ \* the connection or the page query raised: except of line 262
          /\ sy_log' = Append(sy_log, [ev |-> "read", t |-> sy_t, offset |-> sy_offset,
                                       ok |-> FALSE, read |-> 0, docs |-> 0])
          /\ NextTable
          /\ UNCHANGED sy_processed
       \/ \E page \in {PageLoop(sy_t, sy_offset + 1, Page(sy_tables[sy_t], sy_offset),
                                [docs |-> << >>, processed |-> 0, read |-> 0,
                                 raised |-> FALSE])} :
          /\ sy_processed' = sy_processed + page.processed
          /\ sy_log' = Append(sy_log, [ev |-> "read", t |-> sy_t, offset |-> sy_offset,
                                       ok |-> ~page.raised, read |-> page.read,
                                       docs |-> IF page.raised THEN 0 ELSE Len(page.docs)])
          /\ IF page.raised \/ page.docs = << >>
             THEN NextTable
             ELSE /\ sy_batch' = page.docs
                  /\ sy_i' = 0
                  /\ sy_pc' = "flush"
                  /\ UNCHANGED <<sy_t, sy_offset>>
    /\ UNCHANGED <<sy_tables, sy_total, sy_all, sy_result, sq_exists, sq_docs>>
    /\ UNCHANGED exceptSync

\* where the sub-batch loop goes after a sub-batch failed (`continue`, line 254)
TrasFalloDeSubBatchAborta(i, n) == n
TrasFalloDeSubBatch(i, n) == i + SubBatchSize

\* one turn of the sub-batch loop (lines 242-254) and, after the last one,
\* `offset += batch_size` (line 256)
FlushSubBatch ==
    /\ sy_pc = "flush"
    /\ \E chunk_docs \in {SubSeq(sy_batch, sy_i + 1,
                                 Min(sy_i + SubBatchSize, Len(sy_batch)))} :
       \E ok \in BOOLEAN :
       \E siguiente \in {IF ok THEN sy_i + SubBatchSize
                              ELSE TrasFalloDeSubBatch(sy_i, Len(sy_batch))} :
        /\ sy_log' = Append(sy_log, [ev |-> "flush", t |-> sy_t, offset |-> sy_offset,
                                     i |-> sy_i, ok |-> ok])
        /\ IF ok
           THEN /\ sq_exists' = TRUE
                /\ sq_docs' = IF sq_exists THEN sq_docs \o chunk_docs ELSE chunk_docs
                /\ sy_all' = sy_all \o chunk_docs
           ELSE UNCHANGED <<sq_exists, sq_docs, sy_all>>
        /\ IF siguiente < Len(sy_batch)
           THEN /\ sy_i' = siguiente
                /\ sy_pc' = "flush"
                /\ UNCHANGED <<sy_offset, sy_batch>>
           ELSE /\ sy_i' = 0
                /\ sy_batch' = << >>
                /\ sy_offset' = sy_offset + PageSize
                /\ sy_pc' = "read"
    /\ UNCHANGED <<sy_tables, sy_t, sy_total, sy_processed, sy_result>>
    /\ UNCHANGED exceptSync

\* the result dict (lines 266-279)
SyncResult(all_documents, total, processed) ==
    IF all_documents = << >>
    THEN [status |-> "warning", total_records |-> 0, processed_records |-> 0]
    ELSE [status |-> "success", total_records |-> total, processed_records |-> processed]

SyncReturn ==
    /\ sy_pc = "return"
    /\ sy_result' = SyncResult(sy_all, sy_total, sy_processed)
    /\ sy_pc' = "done"
    /\ UNCHANGED <<sy_tables, sy_t, sy_offset, sy_batch, sy_i, sy_total, sy_processed,
                   sy_all, sy_log, sq_exists, sq_docs>>
    /\ UNCHANGED exceptSync

NextSync ==
    \/ SyncStart
    \/ CountTable
    \/ ReadPage
    \/ FlushSubBatch
    \/ SyncReturn

\* runs of generate_database_embeddings in one run of the model
MaxRuns == 2

\* the number of the current call of generate_database_embeddings
Runs ==
    IF sy_log = << >> THEN 0
    ELSE IF "run" \in DOMAIN sy_log[1] THEN sy_log[1].run
    ELSE 1

\* generate_database_embeddings is called again over the same database: its
\* locals start afresh (lines 186-188, 206), the log of the model with them;
\* the snapshot on disk is the one the earlier runs left
SyncAgain ==
    /\ sy_pc = "done"
    /\ sy_tables # << >>
    /\ Runs < MaxRuns
    /\ sy_log' = <<[ev |-> "connect", ok |-> TRUE, run |-> Runs + 1]>>
    /\ sy_t' = 1
    /\ sy_pc' = "count"
    /\ sy_offset' = 0
    /\ sy_batch' = << >>
    /\ sy_i' = 0
    /\ sy_total' = 0
    /\ sy_processed' = 0
    /\ sy_all' = << >>
    /\ sy_result' = NoSyncResult
    /\ UNCHANGED <<sy_tables, sq_exists, sq_docs>>
    /\ UNCHANGED exceptSync

NextResync ==
    \/ NextSync
    \/ SyncAgain

----------------------------------------------------------------------------
(* The load-modify-save cycle on a snapshot directory, step by step, with   *)
(* two writers and one reader (doc_indexer.py:291-298, 315-319, 345-390;    *)
(* sql_embeddings.py:245-250, 302-306). FAISS.save_local(path) writes       *)
(* path/index.faiss and then path/index.pkl in place; FAISS.load_local      *)
(* reads both; shutil.rmtree removes the files and then the directory.      *)

\* largest number of write cycles started in one run of the model
MaxCycles == 2

Writers == {"w1", "w2"}

\* the source file each writer uploads or deletes; "c.pdf" is only ever in
\* the snapshot the run starts with
SourceOf == [w \in Writers |-> IF w = "w1" THEN "a.pdf" ELSE "b.pdf"]
AllSources == {"a.pdf", "b.pdf", "c.pdf"}

\* a file of the snapshot directory: missing, or holding entries for a set of
\* sources
NoFile == [present |-> FALSE, docs |-> {}]
File(d) == [present |-> TRUE, docs |-> d]

\* the snapshot directory as it is on disk
Disk == [dir |-> st_dir, faiss |-> st_faiss, pkl |-> st_pkl]
AbsentImage == [dir |-> FALSE, faiss |-> NoFile, pkl |-> NoFile]
PresentImage(d) == [dir |-> TRUE, faiss |-> File(d), pkl |-> File(d)]

\* the images a completed save or a completed rmtree leaves
Complete(img) ==
    \/ img = AbsentImage
    \/ /\ img.dir /\ img.faiss.present /\ img.pkl.present
       /\ img.faiss.docs = img.pkl.docs

\* FAISS.load_local: the vectors of index.faiss and the docstore of index.pkl;
\* it raises when a file is missing
Loadable(disk) == disk.dir /\ disk.faiss.present /\ disk.pkl.present
load_local(disk) == [vec |-> disk.faiss.docs, doc |-> disk.pkl.docs]

NoStore == [vec |-> {}, doc |-> {}]

IdleWriter ==
    [pc |-> "idle", op |-> "none", store |-> NoStore, outcome |-> "none",
     alone |-> TRUE, inicio |-> AbsentImage, fin |-> AbsentImage]

InitStoreIdle ==
    /\ st_dir = FALSE
    /\ st_faiss = NoFile
    /\ st_pkl = NoFile
    /\ st_w = [w \in Writers |-> IdleWriter]
    /\ st_r = [pc |-> "idle", obs |-> "none"]
    /\ st_hist = [failed |-> FALSE, started |-> {}, cycles |-> 0]

\* a step of writer w: the other writers that are inside a cycle are no
\* longer alone
Otros(w, nuevo) ==
    [v \in Writers |->
        IF v = w THEN nuevo
        ELSE IF st_w[v].pc # "idle" THEN [st_w[v] EXCEPT !.alone = FALSE]
        ELSE st_w[v]]

\* the cycle of writer w ends (ok, failed or noop), leaving `disk` behind
Termina(w, como, disk) ==
    [st_w[w] EXCEPT !.pc = "idle", !.outcome = como, !.store = NoStore, !.fin = disk]

\* a writer enters cargar_y_indexar_documentos (or a sync sub-batch) at its
\* `if os.path.exists(VECTORSTORE_PATH)` (line 292), or
\* eliminar_documento_indexado at its exists test (line 345)
WriterBegin(w) ==
    /\ st_w[w].pc = "idle"
    /\ st_hist.cycles < MaxCycles
    /\ \E op \in {"add", "delete"} :
       \E alone \in {\A v \in Writers \ {w} : st_w[v].pc = "idle"} :
       \E nuevo \in {[st_w[w] EXCEPT !.op = op, !.outcome = "none", !.alone = alone,
                                     !.inicio = Disk, !.fin = Disk, !.store = NoStore]} :
        /\ st_w' = Otros(w,
              IF op = "add"
              THEN [nuevo EXCEPT !.pc = IF st_dir THEN "load" ELSE "embed"]
              ELSE IF st_dir THEN [nuevo EXCEPT !.pc = "load"]
                   ELSE [nuevo EXCEPT !.pc = "idle", !.outcome = "noop"])
        /\ st_hist' = [st_hist EXCEPT !.started = @ \cup {w}, !.cycles = @ + 1]
    /\ UNCHANGED <<st_dir, st_faiss, st_pkl, st_r>>
    /\ UNCHANGED exceptStore

\* FAISS.load_local (lines 293, 368) and, in a delete, the filter of lines
\* 375-381 over the docstore
WriterLoad(w) ==
    /\ st_w[w].pc = "load"
    /\ IF ~Loadable(Disk)
       THEN st_w' = Otros(w, Termina(w, "failed", Disk))
       ELSE \E s \in {load_local(Disk)} :
            IF st_w[w].op = "add"
            THEN st_w' = Otros(w, [st_w[w] EXCEPT !.store = s, !.pc = "embed"])
            ELSE \E quedan \in {s.doc \ {SourceOf[w]}} :
                 st_w' = Otros(w, [st_w[w] EXCEPT
                                      !.store = [vec |-> quedan, doc |-> quedan],
                                      !.pc = IF quedan = {} THEN "rm1" ELSE "embed"])
    /\ UNCHANGED <<st_dir, st_faiss, st_pkl, st_r, st_hist>>
    /\ UNCHANGED exceptStore

\* vectorstore.add_documents / FAISS.from_documents (lines 294, 296, 389): the
\* embedding provider is called, nothing is written
WriterEmbed(w) ==
    /\ st_w[w].pc = "embed"
    /\ \/ /\ st_w' = Otros(w, Termina(w, "failed", Disk))
          /\ st_hist' = [st_hist EXCEPT !.failed = TRUE]
       \/ /\ st_w' = Otros(w,
                 IF st_w[w].op = "add"
                 THEN [st_w[w] EXCEPT !.pc = "save1",
                          !.store = [vec |-> @.vec \cup {SourceOf[w]},
                                     doc |-> @.doc \cup {SourceOf[w]}]]
                 ELSE [st_w[w] EXCEPT !.pc = "save1"])
          /\ UNCHANGED st_hist
    /\ UNCHANGED <<st_dir, st_faiss, st_pkl, st_r>>
    /\ UNCHANGED exceptStore

\* save_local, first file: the directory is made and index.faiss is written
\* over the one in place
WriterSave1(w) ==
    /\ st_w[w].pc = "save1"
    /\ \/ /\ st_w' = Otros(w, Termina(w, "failed", Disk))
          /\ st_hist' = [st_hist EXCEPT !.failed = TRUE]
          /\ UNCHANGED <<st_dir, st_faiss>>
       \/ /\ st_dir' = TRUE
          /\ st_faiss' = File(st_w[w].store.vec)
          /\ st_w' = Otros(w, [st_w[w] EXCEPT !.pc = "save2"])
          /\ UNCHANGED st_hist
    /\ UNCHANGED <<st_pkl, st_r>>
    /\ UNCHANGED exceptStore

\* save_local, second file: index.pkl is written over the one in place
WriterSave2(w) ==
    /\ st_w[w].pc = "save2"
    /\ \/ /\ st_w' = Otros(w, Termina(w, "failed", Disk))
          /\ st_hist' = [st_hist EXCEPT !.failed = TRUE]
          /\ UNCHANGED <<st_dir, st_pkl>>
       \/ /\ st_dir' = TRUE
          /\ st_pkl' = File(st_w[w].store.doc)
          /\ st_w' = Otros(w, Termina(w, "ok",
                                      [dir |-> TRUE, faiss |-> st_faiss,
                                       pkl |-> File(st_w[w].store.doc)]))
          /\ UNCHANGED st_hist
    /\ UNCHANGED <<st_faiss, st_r>>
    /\ UNCHANGED exceptStore

\* shutil.rmtree(VECTORSTORE_PATH) (line 386), first file
WriterRemove1(w) ==
    /\ st_w[w].pc = "rm1"
    /\ st_faiss' = NoFile
    /\ st_w' = Otros(w, [st_w[w] EXCEPT !.pc = "rm2"])
    /\ UNCHANGED <<st_dir, st_pkl, st_r, st_hist>>
    /\ UNCHANGED exceptStore

\* shutil.rmtree, second file and the directory
WriterRemove2(w) ==
    /\ st_w[w].pc = "rm2"
    /\ st_pkl' = NoFile
    /\ \E dir \in {st_faiss.present} :
        /\ st_dir' = dir
        /\ st_w' = Otros(w, Termina(w, "ok",
                                    [dir |-> dir, faiss |-> st_faiss, pkl |-> NoFile]))
    /\ UNCHANGED <<st_faiss, st_r, st_hist>>
    /\ UNCHANGED exceptStore

\* a search at its `if not os.path.exists(VECTORSTORE_PATH)` (lines 302, 315)
ReaderCheck ==
    /\ st_r.pc = "idle"
    /\ st_r' = IF st_dir
               THEN [pc |-> "load", obs |-> "none"]
               ELSE [pc |-> "idle", obs |-> "absent"]
    /\ UNCHANGED <<st_dir, st_faiss, st_pkl, st_w, st_hist>>
    /\ UNCHANGED exceptStore

\* its FAISS.load_local (lines 305, 318)
ReaderLoad ==
    /\ st_r.pc = "load"
    /\ st_r' = IF ~Loadable(Disk)
               THEN [pc |-> "idle", obs |-> "failed"]
               ELSE IF load_local(Disk).vec = load_local(Disk).doc
               THEN [pc |-> "idle", obs |-> "complete"]
               ELSE [pc |-> "idle", obs |-> "torn"]
    /\ UNCHANGED <<st_dir, st_faiss, st_pkl, st_w, st_hist>>
    /\ UNCHANGED exceptStore

NextStore ==
    \/ \E w \in Writers : WriterBegin(w)
    \/ \E w \in Writers : WriterLoad(w)
    \/ \E w \in Writers : WriterEmbed(w)
    \/ \E w \in Writers : WriterSave1(w)
    \/ \E w \in Writers : WriterSave2(w)
    \/ \E w \in Writers : WriterRemove1(w)
    \/ \E w \in Writers : WriterRemove2(w)
    \/ ReaderCheck
    \/ ReaderLoad

----------------------------------------------------------------------------
(* DELETE /documentos/eliminar/{path}: the handler eliminar_documento       *)
(* (query_routes.py), one action per step; the clean-up loop is one action  *)
(* per iteration                                                            *)

\* os.path.isabs
isabs(path) == path # << >> /\ path[1] = SEP

\* the components of a path, separators dropped
RECURSIVE Componentes(_)
Componentes(path) ==
    IF path = << >> THEN << >>
    ELSE IF Head(path) = SEP THEN Componentes(Tail(path))
    ELSE <<Head(path)>> \o Componentes(Tail(path))

\* "/".join(comps)
RECURSIVE Juntar(_)
Juntar(comps) ==
    IF comps = << >> THEN << >>
    ELSE IF Len(comps) = 1 THEN comps
    ELSE <<Head(comps), SEP>> \o Juntar(Tail(comps))

\* the loop of posixpath.normpath over the components: "." is dropped, ".."
\* removes the component before it, is kept at the start of a relative path
\* and is dropped at the root
RECURSIVE Colapsar(_, _, _)
Colapsar(comps, new_comps, abs) ==
    IF comps = << >> THEN new_comps
    ELSE LET comp == Head(comps) IN
         IF comp = "." THEN Colapsar(Tail(comps), new_comps, abs)
         ELSE IF \/ comp # ".."
                 \/ (~abs /\ new_comps = << >>)
                 \/ (new_comps # << >> /\ new_comps[Len(new_comps)] = "..")
              THEN Colapsar(Tail(comps), Append(new_comps, comp), abs)
              ELSE IF new_comps # << >>
                   THEN Colapsar(Tail(comps), SubSeq(new_comps, 1, Len(new_comps) - 1), abs)
                   ELSE Colapsar(Tail(comps), new_comps, abs)

\* os.path.normpath
normpath(path) ==
    LET comps == Colapsar(Componentes(path), << >>, isabs(path))
    IN IF isabs(path) THEN <<SEP>> \o Juntar(comps)
       ELSE IF comps = << >> THEN <<".">>
       ELSE Juntar(comps)

\* os.path.join(a, b): an absolute b discards a
os_path_join(a, b) == IF isabs(b) THEN b ELSE a \o <<SEP>> \o b

\* os.path.dirname: what precedes the last separator, without that separator
\* unless it is the root
dirname(path) ==
    LET n == Len(path) - Len(basename(path))
        head == SubSeq(path, 1, n)
    IN IF n = 0 \/ \A i \in 1..n : head[i] = SEP
       THEN head
       ELSE SubSeq(head, 1, n - 1)

\* the literal "./uploads" of the handler
DOT_UPLOADS == <<".", SEP, "uploads">>

\* the working directory of the server, and where a path leads from there:
\* the components from the root
CWD == <<"app">>
Lugar(path) ==
    IF isabs(path)
    THEN Componentes(normpath(path))
    ELSE Componentes(normpath(<<SEP>> \o Juntar(CWD) \o <<SEP>> \o path))

\* the uploads directory
LugarUploads == Lugar(DOT_UPLOADS)

\* the files and directories of the machine besides the uploaded files: the
\* server's directory /app with a file of its own, the directory /srv with a
\* file
OutsideFiles == { <<"app", "k.pdf">>, <<"srv", "k.pdf">> }
OutsideDirs == { <<"srv">> }
PermanentDirs == { << >>, CWD, LugarUploads }

\* every file there is, by place
Archivos == {LugarUploads \o f : f \in uploads} \cup rm_out
Directorios == PermanentDirs \cup rm_dirs

\* os.path.exists, os.listdir
exists(path) == Lugar(path) \in Archivos \cup Directorios
listdir(path) ==
    {x \in Archivos \cup Directorios :
        /\ Len(x) = Len(Lugar(path)) + 1
        /\ SubSeq(x, 1, Len(x) - 1) = Lugar(path)}

\* the paths a client sends
RmPaths ==
    { <<"a.pdf">>, <<"b.pdf">>, <<"c.txt">>, <<"%61.pdf">>,
      <<"dir", SEP, "..", SEP, "a.pdf">>,
      <<"dir", SEP, "..">>,
      <<"..", SEP, "k.pdf">>,
      <<"dir", SEP, "..", SEP, "..", SEP, "k.pdf">>,
      <<SEP, "srv", SEP, "k.pdf">>,
      <<SEP, "app", SEP, "k.pdf">> }

NoRmHttp == [status |-> 0, causa |-> "none", indice |-> "none"]

InitRemoveIdle ==
    /\ rm_pc = "idle"
    /\ rm_path = << >>
    /\ rm_dir_path = << >>
    /\ rm_out = OutsideFiles
    /\ rm_dirs = OutsideDirs
    /\ rm_http = NoRmHttp

\* an HTTPException raised inside the try block (lines 474, 480) and any other
\* exception are caught by "except Exception" (line 502), which answers 500
RmFalla(causa) ==
    /\ rm_pc' = "done"
    /\ rm_http' = [NoRmHttp EXCEPT !.status = 500, !.causa = causa]
    /\ UNCHANGED <<rm_dir_path, rm_out, rm_dirs, uploads>>

\* lines 472-486: the path is normalised and checked, the file is removed
EliminarDocumento ==
    /\ rm_pc \in {"idle", "done"}
    /\ \E path \in RmPaths :
       \E normalized_path \in {normpath(path)} :
       \E file_path \in {os_path_join(DOT_UPLOADS, normalized_path)} :
        /\ rm_path' = path
        /\ IF StartsWith(normalized_path, "..")
           THEN RmFalla("400")
           ELSE IF ~exists(file_path)
           THEN RmFalla("404")
           ELSE IF Lugar(file_path) \in Directorios
           THEN \* os.remove of a directory raises
                RmFalla("os.remove")
           ELSE /\ uploads' = {f \in uploads : LugarUploads \o f # Lugar(file_path)}
                /\ rm_out' = rm_out \ {Lugar(file_path)}
                /\ rm_dir_path' = dirname(file_path)
                /\ rm_pc' = "cleanup"
                /\ rm_http' = NoRmHttp
                /\ UNCHANGED rm_dirs
    /\ UNCHANGED <<vs_exists, vs_docs, records, last>>
    /\ UNCHANGED exceptRemove

\* lines 487-490: one iteration of the loop "while dir_path != './uploads'"
LimpiarDirectorio ==
    /\ rm_pc = "cleanup"
    /\ rm_dir_path # DOT_UPLOADS
    /\ rm_dirs' = IF listdir(rm_dir_path) = {}
                  THEN rm_dirs \ {Lugar(rm_dir_path)}
                  ELSE rm_dirs
    /\ rm_dir_path' = dirname(rm_dir_path)
    /\ UNCHANGED <<rm_pc, rm_path, rm_out, rm_http>>
    /\ UNCHANGED docVars
    /\ UNCHANGED exceptRemove

\* lines 493-500, after the loop: for an indexable extension the call
\* eliminar_documento_indexado(path, current_user.id, db) is evaluated; db is
\* no name of the handler or of the module, the NameError is caught by the
\* inner "except Exception" (line 497) and printed; the handler answers 200
EliminarDelIndice ==
    /\ rm_pc = "cleanup"
    /\ rm_dir_path = DOT_UPLOADS
    /\ rm_pc' = "done"
    /\ rm_http' = [NoRmHttp EXCEPT
                     !.status = 200,
                     !.indice = IF splitext_lower(rm_path) \in {".pdf", ".doc", ".docx"}
                                THEN "NameError"
                                ELSE "omitido"]
    /\ UNCHANGED <<rm_path, rm_dir_path, rm_out, rm_dirs>>
    /\ UNCHANGED docVars
    /\ UNCHANGED exceptRemove

\* uploads fill the directory and the index, then delete requests arrive
NextRemove ==
    \/ (rm_pc = "idle" /\ CargarDocumento)
    \/ EliminarDocumento
    \/ LimpiarDirectorio
    \/ EliminarDelIndice

----------------------------------------------------------------------------
(* POST /documentos/cargar: the handler cargar_documento (query_routes.py)  *)
(* with the saves that raise, and the lists it reports                      *)

\* calls of the handler in one run of the model
MaxCargas == 2

NoUpHttp == [status |-> 0, resultado |-> "none", archivos |-> {}, validos |-> {},
             invalidos |-> {}, procesados |-> << >>, chunks |-> << >>]

InitUploadIdle ==
    /\ up_vacios = {}
    /\ up_http = NoUpHttp
    /\ up_calls = 0

\* position in the walk of the first file whose loader raises: an empty file
\* with an extension procesar_archivo loads (lines 213-222); 0 if there is none
PrimerVacio(visitados, vacios) ==
    LET malos == {i \in 1..Len(visitados) :
                     /\ visitados[i] \in vacios
                     /\ splitext_lower(visitados[i]) \in {".pdf", ".doc", ".docx"}}
    IN IF malos = {} THEN 0
       ELSE CHOOSE i \in malos : \A j \in malos : i <= j

\* cargar_documento for a request `archivos` in which the saves of `fallan`
\* raise after open() created the file (lines 291-308: the name goes to
\* archivos_invalidos, the file stays, empty); the other files are validated
\* and the invalid ones removed (lines 299-304); then
\* cargar_y_indexar_documentos walks ./uploads (line 319)
CargarDocumentoConFallos ==
    /\ up_calls < MaxCargas
    /\ up_calls' = up_calls + 1
    /\ \E archivos \in Requests :
       \E fallan \in SUBSET archivos :
       \E validos \in {{f \in archivos \ fallan : is_valid_file(join(UPLOADS, f))}} :
       \E dir \in {(uploads \cup archivos) \ ((archivos \ fallan) \ validos)} :
       \E vacios \in {(up_vacios \ archivos) \cup fallan} :
       LET base == [NoUpHttp EXCEPT !.archivos = archivos, !.validos = validos,
                                    !.invalidos = archivos \ validos]
       IN
        /\ uploads' = dir
        /\ up_vacios' = vacios
        /\ IF validos = {}
           THEN /\ up_http' = [base EXCEPT !.status = 200, !.resultado = "sin_validos"]
                /\ UNCHANGED <<vs_exists, vs_docs, records>>
           ELSE \E visitados \in Recorridos(dir) :
                \E k \in {PrimerVacio(visitados, vacios)} :
                IF k # 0
                THEN \* the row of the empty file is created (line 268), then
                     \* loader.load() raises (line 221): HTTP 500 (lines 330-334)
                     \E nuevos \in {RecordsDelRecorrido(SubSeq(visitados, 1, k - 1))
                                      \o <<create_document_record(
                                              join(UPLOADS, visitados[k]))>>} :
                     /\ Len(records) + Len(nuevos) <= MaxRecords
                     /\ records' = records \o nuevos
                     /\ up_http' = [base EXCEPT !.status = 500, !.resultado = "error"]
                     /\ UNCHANGED <<vs_exists, vs_docs>>
                ELSE \E nuevos \in {RecordsDelRecorrido(visitados)},
                        chunks \in {ChunksDelRecorrido(visitados)} :
                     /\ Len(records) + Len(nuevos) <= MaxRecords
                     /\ records' = records \o nuevos
                     /\ IF archivos_encontrados(Cardinality(dir)) > MaxFilesPerUpload
                        THEN /\ up_http' = [base EXCEPT !.status = 200,
                                                        !.resultado = "limite_excedido"]
                             /\ UNCHANGED <<vs_exists, vs_docs>>
                        ELSE IF chunks = << >>
                        THEN /\ up_http' = [base EXCEPT !.status = 200,
                                                        !.resultado = "sin_documentos"]
                             /\ UNCHANGED <<vs_exists, vs_docs>>
                        ELSE /\ Len(vs_docs) + Len(chunks) <= MaxChunks
                             /\ \/ /\ up_http' = [base EXCEPT !.status = 500,
                                                              !.resultado = "error"]
                                   /\ UNCHANGED <<vs_exists, vs_docs>>
                                \/ /\ vs_exists' =
                                        SnapshotTrasIndexar(vs_exists, vs_docs, chunks).exists
                                   /\ vs_docs' =
                                        SnapshotTrasIndexar(vs_exists, vs_docs, chunks).docs
                                   /\ up_http' =
                                        [base EXCEPT
                                           !.status = 200,
                                           !.resultado = "indexados",
                                           !.procesados = ProcesadosDelRecorrido(visitados),
                                           !.chunks = chunks]
    /\ UNCHANGED last
    /\ UNCHANGED exceptUpload

NextUpload == CargarDocumentoConFallos

----------------------------------------------------------------------------
(* create_access_token (auth_system.py), one call with every argument of    *)
(* the model                                                                *)

\* latest instant of a call, in ticks
MaxNow == 3
\* longest expires_delta, in seconds
MaxDelta == 2

\* time is counted in ticks; int(x.timestamp()) truncates to whole seconds
TicksPerSecond == 2
timestamp_int(ticks) == ticks \div TicksPerSecond

SECRET_KEY == "defaultsecret"
ALGORITHM == "HS256"
ACCESS_TOKEN_EXPIRE_MINUTES == 60

\* timedelta(minutes = m) and timedelta(seconds = n), in ticks
timedelta_minutes(m) == m * 60 * TicksPerSecond
timedelta_seconds(n) == n * TicksPerSecond

\* the dicts passed as data: any of these keys, each with a value
TkKeys == {"sub", "role", "type", "exp", "tenant"}
TkRoles == {"user", "superuser"}
TkData(keys, role) ==
    [k \in keys |->
        CASE k = "sub" -> "alice"
          [] k = "role" -> role
          [] k = "type" -> "refresh"
          [] k = "exp" -> 0
          [] OTHER -> "t1"]

\* the values passed as expires_delta: None, or a duration of whole seconds
TkDeltas ==
    {None} \cup {[tag |-> "timedelta", ticks |-> timedelta_seconds(d)] :
                    d \in (-1)..MaxDelta}

\* bool(expires_delta): None and timedelta(0) are falsy
Truthy(delta) == delta # None /\ delta.ticks # 0

\* dict.update
DictUpdate(d, u) ==
    [k \in (DOMAIN d) \cup (DOMAIN u) |-> IF k \in DOMAIN u THEN u[k] ELSE d[k]]

\* jose.jwt.encode and jose.jwt.decode: the claims signed with the key; decode
\* checks the signature, the algorithm and that exp is not in the past
NoToken == [claims |-> << >>, key |-> "none", alg |-> "none"]
jwt_encode(claims, key, algorithm) == [claims |-> claims, key |-> key, alg |-> algorithm]
jwt_decode(token, key, algorithms, now) ==
    IF token.key # key \/ token.alg \notin algorithms
    THEN [error |-> "JWTError", claims |-> << >>]
    ELSE IF "exp" \in DOMAIN token.claims /\ token.claims["exp"] < timestamp_int(now)
    THEN [error |-> "ExpiredSignatureError", claims |-> << >>]
    ELSE [error |-> "none", claims |-> token.claims]

NoTkOut == [kind |-> "none", token |-> NoToken]

InitTokenIdle ==
    /\ tk_data = << >>
    /\ tk_expires_delta = None
    /\ tk_now = 0
    /\ tk_pc = "idle"
    /\ tk_out = NoTkOut

\* create_access_token(data, expires_delta)
CreateAccessToken ==
    /\ tk_pc = "ready"
    /\ LET now == tk_now
           expire == now + (IF Truthy(tk_expires_delta)
                            THEN tk_expires_delta.ticks
                            ELSE timedelta_minutes(ACCESS_TOKEN_EXPIRE_MINUTES))
           to_encode == DictUpdate(tk_data,
                                   [exp |-> timestamp_int(expire),
                                    iat |-> timestamp_int(now),
                                    type |-> "access_token"])
       IN tk_out' = IF "sub" \notin DOMAIN to_encode \/ "role" \notin DOMAIN to_encode
                    THEN [kind |-> "ValueError", token |-> NoToken]
                    ELSE [kind |-> "token",
                          token |-> jwt_encode(to_encode, SECRET_KEY, ALGORITHM)]
    /\ tk_pc' = "done"
    /\ UNCHANGED <<tk_data, tk_expires_delta, tk_now>>
    /\ UNCHANGED exceptToken

NextToken == CreateAccessToken

----------------------------------------------------------------------------
(* Specifications *)

Init ==
    /\ InitOrchDocs
    /\ InitChunkIdle
    /\ InitSyncIdle
    /\ InitStoreIdle
    /\ InitRemoveIdle
    /\ InitUploadIdle
    /\ InitTokenIdle

\* a call chunk_text(text, max_tokens) about to be made
InitChunk ==
    /\ InitOrchDocs
    /\ InitSyncIdle
    /\ InitStoreIdle
    /\ InitRemoveIdle
    /\ InitUploadIdle
    /\ InitTokenIdle
    /\ ct_text \in Texts
    /\ ct_max_tokens \in 1..MaxTokens
    /\ ct_chunks = << >>
    /\ ct_pc = "ready"

\* a run of the store starts from a complete snapshot or from none
InitStore ==
    /\ InitOrchDocs
    /\ InitChunkIdle
    /\ InitSyncIdle
    /\ InitRemoveIdle
    /\ InitUploadIdle
    /\ InitTokenIdle
    /\ \E img \in {AbsentImage} \cup {PresentImage(d) : d \in (SUBSET AllSources) \ {{}}} :
        /\ st_dir = img.dir
        /\ st_faiss = img.faiss
        /\ st_pkl = img.pkl
    /\ st_w = [w \in Writers |-> IdleWriter]
    /\ st_r = [pc |-> "idle", obs |-> "none"]
    /\ st_hist = [failed |-> FALSE, started |-> {}, cycles |-> 0]

SpecOrch == Init /\ [][NextOrch]_vars

SpecIndex == Init /\ [][NextIndex]_vars

SpecChunk == InitChunk /\ [][NextChunk]_vars

SpecSync == Init /\ [][NextSync]_vars

\* the run is one sequential call: a step that is enabled is taken
SpecSyncLive == Init /\ [][NextSync]_vars /\ WF_vars(NextSync)

SpecResync == Init /\ [][NextResync]_vars

SpecStore == InitStore /\ [][NextStore]_vars

SpecRemove == Init /\ [][NextRemove]_vars

SpecUpload == Init /\ [][NextUpload]_vars

\* a call create_access_token(data, expires_delta) about to be made at tk_now
InitToken ==
    /\ InitOrchDocs
    /\ InitChunkIdle
    /\ InitSyncIdle
    /\ InitStoreIdle
    /\ InitRemoveIdle
    /\ InitUploadIdle
    /\ \E keys \in SUBSET TkKeys, role \in TkRoles : tk_data = TkData(keys, role)
    /\ tk_expires_delta \in TkDeltas
    /\ tk_now \in TicksPerSecond..(TicksPerSecond + MaxNow)
    /\ tk_pc = "ready"
    /\ tk_out = NoTkOut

SpecToken == InitToken /\ [][NextToken]_vars

----------------------------------------------------------------------------
(* Claims about responder_a_pregunta_combinada (checked under SpecOrch) *)

GEN == "generar_sql_desde_pregunta"
EXEC == "ejecutar_query"
EMB == "get_similar_records"
DOCS == "recuperar_contexto_desde_documentos"
LLM == "generar_respuesta_con_contexto"

\* the call reached its outcome decision (line 92)
Decidido == outcome \in {"returned", "raised"}
\* the SQL stage failed: generation raised, or execution failed (an exception,
\* or a database error that ejecutar_query reports in its result)
SqlFallo == outs[GEN] = "raise" \/ outs[EXEC] \in {"dberror", "raise"}
DocsFallo == outs[DOCS] = "raise"
LlmFallo == outs[LLM] = "raise"
\* the answer is empty or an error-marker string
SinRespuestaUtil == respuesta = << >> \/ StartsWith(respuesta, ERROR_LLM)

\* C1: if the relational embedding search returned at least one hit, neither
\* SQL generation nor SQL execution is invoked at any point of that call.
C1_HitNuncaInvocaSql ==
    outs[EMB] = "hit" => calls \cap {GEN, EXEC} = {}

\* a call with a hit ran to its end and returned
C1_Witness ==
    /\ pc = "done"
    /\ outs[EMB] = "hit"
    /\ outcome = "returned"
    /\ LLM \in calls

\* C2 (as claimed): the call raises the aggregated error if and only if at
\* least one stage recorded an error and the answer is empty or an
\* error-marker string; otherwise it returns a result.
C2_DecisionComoSeAfirma ==
    Decidido =>
        ((outcome = "raised") <=> (error_details # {} /\ SinRespuestaUtil))

\* C3 (as claimed): whenever the call raises its aggregated error, the SQL
\* stage, document retrieval and answer synthesis have all failed.
C3_FallaSoloSiTodoFalla ==
    outcome = "raised" => (SqlFallo /\ DocsFallo /\ LlmFallo)

\* C3 (amended): whenever the call raises, no usable answer exists: the answer
\* is empty or an error-marker string, or the embedding search itself raised
\* before any answer was synthesized.
C3_FallaSoloSinRespuestaUtil ==
    outcome \in {"raised", "uncaught"} =>
        (outs[EMB] = "raise" \/ (LLM \in calls /\ SinRespuestaUtil))

\* the call raised although SQL context and document context were obtained
C3_Witness ==
    /\ outcome = "raised"
    /\ outs[EXEC] = "rows"
    /\ outs[DOCS] = "ok"
    /\ LlmFallo

\* C4 (as claimed): if the SQL stage, document retrieval and answer synthesis
\* all fail, the call raises an aggregated failure holding the three keys
\* sql_error, docs_error and llm_error.
C4_TresErrores ==
    (Decidido /\ SqlFallo /\ DocsFallo /\ LlmFallo) =>
        /\ outcome = "raised"
        /\ {"sql_error", "docs_error", "llm_error"} \subseteq Keys(raised.items)

\* the case of C5: empty embedding search, SQL generation failed, documents and
\* synthesis succeeded with a usable answer
C5_Caso ==
    /\ Decidido
    /\ outs[EMB] = "empty"
    /\ outs[GEN] = "raise"
    /\ outs[DOCS] = "ok"
    /\ outs[LLM] = "ok"
    /\ ~SinRespuestaUtil

\* C5: in that case the call returns, error_details (the endpoint's warnings)
\* contains sql_error, and respuesta is the synthesized answer.
C5_ExitoParcialConSqlError ==
    C5_Caso =>
        /\ outcome = "returned"
        /\ resultado.respuesta = respuesta
        /\ resultado.error_details # None
        /\ "sql_error" \in Keys(resultado.error_details.items)
        /\ pc = "done" =>
              /\ http.status = 200
              /\ http.has_warnings
              /\ http.warnings = resultado.error_details
              /\ http.respuesta = respuesta

C5_Witness ==
    /\ C5_Caso
    /\ pc = "done"
    /\ http.status = 200

\* C6 (as claimed): in the SQL fallback path, whenever generation or execution
\* fails (a database error reported by ejecutar_query included), sql_error is
\* recorded, contexto_sql is the '[ERROR SQL] ...' marker, and the call goes on
\* to document retrieval.
C6_SqlErrorRegistrado ==
    SqlFallo =>
        /\ "sql_error" \in Keys(error_details)
        /\ StartsWith(contexto_sql, ERROR_SQL)
        /\ pc = "docs" \/ DOCS \in calls

\* C7 (as claimed): document retrieval runs in every call, whatever the outcome
\* of the embedding search and of the SQL fallback, and its failure is recorded
\* under docs_error without aborting the call.
C7_DocsSiempreEjecutado ==
    /\ outcome # "none" => DOCS \in calls
    /\ DocsFallo => ("docs_error" \in Keys(error_details) /\ outcome # "uncaught")

\* the sub-sources that degraded in the current call
Degradadas ==
    (IF SqlFallo THEN {"sql_error"} ELSE {}) \cup
    (IF DocsFallo THEN {"docs_error"} ELSE {})

\* C8 (as claimed): on a successful return the error_details / warnings payload
\* names exactly the sub-sources that degraded, and is null only when none did.
C8_WarningsNombranDegradadas ==
    outcome = "returned" =>
        IF Degradadas = {}
        THEN resultado.error_details = None
        ELSE /\ resultado.error_details # None
             /\ Keys(resultado.error_details.items) = Degradadas

----------------------------------------------------------------------------
(* Claims about the document vector index (checked under SpecIndex) *)

\* number of occurrences of chunk c in a docstore
RECURSIVE Count(_, _)
Count(docs, c) ==
    IF docs = << >> THEN 0
    ELSE (IF Head(docs) = c THEN 1 ELSE 0) + Count(Tail(docs), c)

Range(seq) == {seq[i] : i \in DOMAIN seq}

\* the step is a call of eliminar_documento_indexado that ran to its end
EliminarStep == last'.op = "eliminar" /\ last'.status \in {"eliminado", "sin_vectorstore"}
BuscarStep == last'.op = "buscar"

FuenteEliminada(nombre) == basename(unquote(nombre))

\* C10: after a delete that removed the chunks of one source and left others,
\* no chunk of the deleted source is in the index, every chunk of every other
\* source still is, and a search that follows returns only surviving chunks.
C10_SoloSobrevivientes ==
    /\ [][(last'.op = "eliminar" /\ last'.status = "eliminado" /\ vs_exists')
            => /\ \A c \in Range(vs_docs') : c.source # FuenteEliminada(last'.nombre)
               /\ \A c \in Range(vs_docs) :
                     c.source # FuenteEliminada(last'.nombre)
                        => Count(vs_docs', c) = Count(vs_docs, c)
               /\ Range(vs_docs') \subseteq Range(vs_docs)]_vars
    /\ [][(last.op = "eliminar" /\ last.status = "eliminado"
             /\ last'.op = "buscar" /\ last'.status = "ok")
            => /\ last'.hallados \subseteq Range(vs_docs)
               /\ \A c \in last'.hallados : c.source # FuenteEliminada(last.nombre)]_vars

\* a delete removed the chunks of one source and other chunks survived
C10_Witness ==
    /\ last.op = "eliminar"
    /\ last.status = "eliminado"
    /\ last.eliminados > 0
    /\ vs_exists
    /\ vs_docs # << >>


----------------------------------------------------------------------------
(* Claims about chunk_text (checked under SpecChunk) *)

\* the body lines of a chunk: its lines after the first
Body(chunk) == Tail(split_lines(chunk))

\* the body lines of all chunks, in order
RECURSIVE Bodies(_)
Bodies(cs) == IF cs = << >> THEN << >> ELSE Body(Head(cs)) \o Bodies(Tail(cs))

\* C14: for every text whose token count is at most max_tokens, chunk_text
\* returns exactly one chunk, equal to the input text.
C14_TextoEnPresupuestoIntacto ==
    (ct_pc = "done" /\ count_tokens(ct_text) <= ct_max_tokens) => ct_chunks = <<ct_text>>

\* a text of several lines within the budget was returned
C14_Witness ==
    /\ ct_pc = "done"
    /\ count_tokens(ct_text) <= ct_max_tokens
    /\ Len(split_lines(ct_text)) >= 2
    /\ ct_chunks = <<ct_text>>

\* C15 (as claimed): every chunk chunk_text returns has a token count of at most
\* max_tokens.
C15_CadaChunkEnPresupuesto ==
    ct_pc = "done" =>
        \A i \in 1..Len(ct_chunks) : count_tokens(ct_chunks[i]) <= ct_max_tokens

\* C16: for every text exceeding the budget, every chunk starts with the header
\* line (line 0 of the input), and the body lines of all chunks, in order, are
\* exactly lines 1..n of the input.
C16_CuerposReconstruyenLineas ==
    (ct_pc = "done" /\ count_tokens(ct_text) > ct_max_tokens) =>
        /\ \A i \in 1..Len(ct_chunks) :
               split_lines(ct_chunks[i])[1] = split_lines(ct_text)[1]
        /\ Bodies(ct_chunks) = Tail(split_lines(ct_text))

\* a text over the budget was cut into several chunks
C16_Witness ==
    /\ ct_pc = "done"
    /\ count_tokens(ct_text) > ct_max_tokens
    /\ Len(ct_chunks) >= 2
    /\ Len(split_lines(ct_text)) >= 3

\* C17 (as claimed): for the empty text chunk_text returns no chunk at all.
C17_TextoVacioSinChunks ==
    (ct_pc = "done" /\ ct_text = << >>) => ct_chunks = << >>


----------------------------------------------------------------------------
(* Claims about generate_database_embeddings (checked under SpecSync) *)

SyncEvents(kind) == {k \in 1..Len(sy_log) : sy_log[k].ev = kind}

\* create_engine and get_all_tables succeeded
Connected == Len(sy_log) > 0 /\ sy_log[1].ok

\* number of rows the page queries of the run handed to the row loop
RECURSIVE RowsReadUpTo(_)
RowsReadUpTo(n) ==
    IF n = 0 THEN 0
    ELSE (IF sy_log[n].ev = "read" THEN sy_log[n].read ELSE 0) + RowsReadUpTo(n - 1)
RowsRead == RowsReadUpTo(Len(sy_log))

\* number of chunks the run saved to the relational index
ChunksIndexed == Len(sq_docs)

\* C18 (as claimed): the result is success if and only if at least one chunk
\* was indexed, warning (with processed_records = 0) if and only if no rows
\* were found in any table, and error only when connecting or enumerating the
\* tables failed.
C18_EstadoDelResultado ==
    sy_pc = "done" =>
        /\ (sy_result.status = "success") <=> (ChunksIndexed >= 1)
        /\ (sy_result.status = "warning") <=> (Connected /\ RowsRead = 0)
        /\ sy_result.status = "warning" => sy_result.processed_records = 0
        /\ sy_result.status = "error" => ~Connected

\* C19 (as claimed): processed_records of the result is the number of rows
\* read during the run, rows whose chunking or indexing failed included.
C19_ProcesadosSonLeidos ==
    sy_pc = "done" => sy_result.processed_records = RowsRead

\* the first indexes of the sub-batches of a page of n documents
SubBatchStarts(n) == {i \in 0..(n - 1) : i % SubBatchSize = 0}

\* C20: a failure confined to one table or one sub-batch never aborts the run:
\* once connected the run does not end in error, every table is counted and
\* read, and every sub-batch of every page that was read is flushed to the
\* relational index, whatever failed before it.
C20_FallosAislados ==
    (sy_pc = "done" /\ Connected) =>
        /\ sy_result.status # "error"
        /\ \A t \in 1..Len(sy_tables) :
              /\ \E k \in SyncEvents("count") : sy_log[k].t = t
              /\ \E k \in SyncEvents("read") : sy_log[k].t = t
        /\ \A k \in SyncEvents("read") :
              \A i \in SubBatchStarts(sy_log[k].docs) :
                 \E f \in SyncEvents("flush") :
                    /\ sy_log[f].t = sy_log[k].t
                    /\ sy_log[f].offset = sy_log[k].offset
                    /\ sy_log[f].i = i

\* a run in which a count, the reading of a table that is not the last, and a
\* sub-batch that is not the last of its page all failed
C20_Witness ==
    /\ sy_pc = "done"
    /\ \E k \in SyncEvents("count") : ~sy_log[k].ok
    /\ \E k \in SyncEvents("read") : ~sy_log[k].ok /\ sy_log[k].t < Len(sy_tables)
    /\ \E f, g \in SyncEvents("flush") :
          /\ ~sy_log[f].ok
          /\ sy_log[g].ok
          /\ f < g
          /\ sy_log[g].t = sy_log[f].t
          /\ sy_log[g].offset = sy_log[f].offset


----------------------------------------------------------------------------
(* Claims about the snapshot under writers and a reader (checked under      *)
(* SpecStore)                                                               *)

\* the records of a complete image
DocsOf(img) == img.pkl.docs

\* C11 (as claimed): an add that ran with no other writer on a complete
\* snapshot leaves, when it failed, exactly the snapshot it found, and
\* otherwise exactly that snapshot merged with its chunks; no image with only
\* part of the snapshot files is left.
C11_AddTodoONada ==
    \A w \in Writers :
        (/\ st_w[w].pc = "idle"
         /\ st_w[w].op = "add"
         /\ st_w[w].outcome \in {"ok", "failed"}
         /\ st_w[w].alone
         /\ Complete(st_w[w].inicio))
        => /\ Complete(st_w[w].fin)
           /\ st_w[w].outcome = "failed" => st_w[w].fin = st_w[w].inicio
           /\ st_w[w].outcome = "ok" =>
                 st_w[w].fin = PresentImage(DocsOf(st_w[w].inicio) \cup {SourceOf[w]})

\* C12 (as claimed): after two writers both completed a mutation of the same
\* index, with no failure, the snapshot reflects both: the source a writer
\* added is in it, the source a writer deleted is not.
C12_SnapshotReflejaAmbos ==
    (/\ st_hist.started = Writers
     /\ ~st_hist.failed
     /\ \A w \in Writers : st_w[w].pc = "idle" /\ st_w[w].outcome = "ok")
    => /\ Complete(Disk)
       /\ \A w \in Writers :
             /\ st_w[w].op = "add" => SourceOf[w] \in DocsOf(Disk)
             /\ st_w[w].op = "delete" => SourceOf[w] \notin DocsOf(Disk)

\* C13 (as claimed): a search that runs while one writer adds or deletes, with
\* no failure, loads a complete image (or finds no snapshot): never a
\* directory with a file missing or with files of two different saves.
C13_LectorVeImagenCompleta ==
    (~st_hist.failed /\ Cardinality(st_hist.started) <= 1)
    => st_r.obs \in {"none", "absent", "complete"}

----------------------------------------------------------------------------
(* Claims about the upload path (checked under SpecIndex) *)

CargarStep == last'.op = "cargar" /\ last'.status # "sin_validos"

\* C21: when the directory walked holds more files than the per-upload limit,
\* cargar_y_indexar_documentos returns the limit message with an empty list of
\* processed files and leaves the index exactly as it was.
C21_LimiteExcedidoNoTocaIndice ==
    [][(CargarStep /\ Cardinality(uploads') > MaxFilesPerUpload)
         => /\ last'.status = "limite_excedido"
            /\ last'.procesados = << >>
            /\ vs_exists' = vs_exists
            /\ vs_docs' = vs_docs]_vars

\* an upload hit the limit while the index held chunks
C21_Witness ==
    /\ last.op = "cargar"
    /\ last.status = "limite_excedido"
    /\ Cardinality(uploads) > MaxFilesPerUpload
    /\ vs_exists
    /\ vs_docs # << >>

\* C26 (as claimed): a row of document_records is marked is_indexed = true
\* only after its chunks were written to the index: after any upload call,
\* the calls that end at the limit or in an embedding or save failure
\* included, every row the call marked has chunks in the index.
C26_IndexadoSoloConChunks ==
    [][CargarStep
         => \A i \in (Len(records) + 1)..Len(records') :
               records'[i].is_indexed
                  => \E c \in Range(vs_docs') : c.source = records'[i].filename]_vars

----------------------------------------------------------------------------
(* Claims about repeated and terminating runs of generate_database_embeddings *)

\* the key of a record of the relational index
ClaveSql(doc) == <<doc.table, doc.record_id, doc.chunk>>

\* C27 (as claimed, checked under SpecResync): after any number of completed
\* runs over an unchanged database the relational index holds exactly one
\* record per table, record id and chunk ordinal.
C27_UnRegistroPorClave ==
    sy_pc = "done" =>
        \A i, j \in 1..Len(sq_docs) :
            i # j => ClaveSql(sq_docs[i]) # ClaveSql(sq_docs[j])

\* C29 (as claimed, checked under SpecSync): in every result and at every
\* progress report (line 259, after the last sub-batch of a page)
\* 0 <= processed_records <= total_records, whatever failed.
C29_ProcesadosEntreCeroYTotal ==
    /\ [](sy_pc = "done" =>
             /\ 0 <= sy_result.processed_records
             /\ sy_result.processed_records <= sy_result.total_records)
    /\ [][(sy_pc = "flush" /\ sy_pc' = "read")
            => (0 <= sy_processed' /\ sy_processed' <= sy_total')]_vars

\* C30 (checked under SpecSyncLive): every run of generate_database_embeddings
\* that started returns, for every database of finite tables and every
\* pattern of failures; the paging loop does not run for ever.
C30_LaCorridaTermina == (sy_pc # "idle") ~> (sy_pc = "done")

\* a run returned after reading a table page by page, to the empty page that
\* ends the loop, with a sub-batch that failed on the way
C30_Witness ==
    /\ sy_pc = "done"
    /\ \E i \in 1..Len(sy_log) :
          /\ sy_log[i].ev = "read"
          /\ sy_log[i].offset > 0
          /\ sy_log[i].ok
          /\ sy_log[i].read = 0
    /\ \E i \in 1..Len(sy_log) : sy_log[i].ev = "flush" /\ ~sy_log[i].ok

----------------------------------------------------------------------------
(* Claims about the handler eliminar_documento (checked under SpecRemove) *)

\* the source the claim names: the basename of the normalised, URL-decoded path
FuenteNormalizada(path) == basename(unquote(normpath(path)))

\* C22 (as claimed): when the remove operation completes without error for a
\* file that has a row in document_records and chunks in the index, the row
\* found by filename has is_deleted = true and the index holds no chunk whose
\* source is the basename of the normalised, URL-decoded path.
C22_RemoveMarcaYBorra ==
    [][(/\ rm_pc = "cleanup"
        /\ rm_pc' = "done"
        /\ rm_http'.status = 200
        /\ FirstRecord(records, basename(rm_path)) # 0
        /\ \E c \in Range(vs_docs) : c.source = FuenteNormalizada(rm_path))
         => /\ records'[FirstRecord(records', basename(rm_path))].is_deleted
            /\ \A c \in Range(vs_docs') : c.source # FuenteNormalizada(rm_path)]_vars

\* a path leads outside ./uploads when the place os.path.join("./uploads", path)
\* names is not below the uploads directory
FueraDeUploads(path) ==
    LET lugar == Lugar(os_path_join(DOT_UPLOADS, path))
    IN ~(/\ Len(lugar) > Len(LugarUploads)
         /\ SubSeq(lugar, 1, Len(LugarUploads)) = LugarUploads)

\* C23 (as claimed): a request whose path leads outside ./uploads, by
\* traversal components or by being absolute, is rejected before any file
\* system action: no file and no directory is removed and the answer is an
\* error.
C23_FueraDeUploadsRechazado ==
    [][(rm_pc' # "idle" /\ FueraDeUploads(rm_path'))
         => /\ rm_out' = rm_out
            /\ rm_dirs' = rm_dirs
            /\ uploads' = uploads
            /\ rm_http'.status # 200]_vars

----------------------------------------------------------------------------
(* Claims about the handler cargar_documento (checked under SpecUpload) *)

\* C24 (as claimed): a file of the request is accepted if and only if its
\* extension is allowed and its size is within max_file_size; every file is in
\* exactly one of the lists of valid and invalid files; every invalid file is
\* removed from the temporary storage; no invalid file contributes chunks.
C24_ValidacionDeArchivos ==
    up_http.status # 0 =>
        /\ \A f \in up_http.archivos :
              f \in up_http.validos <=> is_valid_file(join(UPLOADS, f))
        /\ up_http.validos \cap up_http.invalidos = {}
        /\ up_http.validos \cup up_http.invalidos = up_http.archivos
        /\ \A f \in up_http.invalidos : f \notin uploads
        /\ \A c \in Range(up_http.chunks) :
              c.source \notin {basename(f) : f \in up_http.invalidos}

\* the names of the files of a request
NombresDe(archivos) == {basename(f) : f \in archivos}

\* C28 (as claimed): an upload processes exactly the files submitted in that
\* call: files of earlier uploads are not counted against the per-upload
\* limit, get no new row in document_records and are not indexed again.
C28_SoloLosArchivosEnviados ==
    [][(up_calls' = up_calls + 1)
         => /\ \A i \in (Len(records) + 1)..Len(records') :
                  records'[i].filename \in NombresDe(up_http'.archivos)
            /\ \A c \in Range(up_http'.chunks) :
                  c.source \in NombresDe(up_http'.archivos)
            /\ \A n \in Range(up_http'.procesados) : n \in up_http'.archivos
            /\ up_http'.resultado = "limite_excedido"
                  => Cardinality(up_http'.archivos) > MaxFilesPerUpload]_vars

----------------------------------------------------------------------------
(* Claims about create_access_token (checked under SpecToken) *)

\* the duration the claim names: expires_delta, 60 minutes when it is omitted
DeltaPedido ==
    IF tk_expires_delta = None
    THEN timedelta_minutes(ACCESS_TOKEN_EXPIRE_MINUTES)
    ELSE tk_expires_delta.ticks

\* C25 (as claimed): create_access_token raises ValueError whenever data lacks
\* "sub" or "role"; otherwise it returns a token whose decoded payload holds
\* every claim of data unchanged, plus exp, iat and type = "access_token",
\* with exp = iat + expires_delta (60 minutes by default).
C25_TokenConClaims ==
    tk_pc = "done" =>
        IF "sub" \notin DOMAIN tk_data \/ "role" \notin DOMAIN tk_data
        THEN tk_out.kind = "ValueError"
        ELSE /\ tk_out.kind = "token"
             /\ LET payload == jwt_decode(tk_out.token, SECRET_KEY, {ALGORITHM}, tk_now)
                IN /\ payload.error = "none"
                   /\ \A k \in DOMAIN tk_data : payload.claims[k] = tk_data[k]
                   /\ {"exp", "iat", "type"} \subseteq DOMAIN payload.claims
                   /\ payload.claims["type"] = "access_token"
                   /\ payload.claims["exp"] * TicksPerSecond
                        = payload.claims["iat"] * TicksPerSecond + DeltaPedido

====
